---- MODULE Spec2Model ----
(***************************************************************************)
(* Model of the recognBOT job queue and pipeline orchestration:            *)
(*   app/tasks.py   enqueue_job, _remove_job, _wait_for_turn,              *)
(*                  process_video (Celery task with retry and finally)     *)
(*   app/bot.py     handle_video (gateway that dispatches process_video)   *)
(*   app/processing.py  download_video .. clean_workdir (pipeline stages)  *)
(*                                                                         *)
(* Granularity: one step per Redis command or per external stage call, so  *)
(* that workers interleave exactly where the code can be interleaved.      *)
(* Redis stores strings; a Python value passed as job_id is a record       *)
(* [kind, val]: kind is the Python type ("str" or "int"), val the text     *)
(* Redis stores for it.                                                    *)
(*                                                                         *)
(* Specifications:                                                         *)
(*   Spec, FairSpec  producer jobs and gateway videos with their workers   *)
(*   SpecAPI         the queue manager called by one sequential client     *)
(*   SpecGateway     every task dispatched by bot.py handle_video          *)
(*   SpecTranscribe  one call of processing.transcribe_chunks              *)
(*   SpecConfig      the import of config.CHUNK_DURATION_SECONDS           *)
(*   SpecWait        one call of _wait_for_turn with its clock             *)
(*   SpecAttempt     one attempt of process_video with its status messages *)
(*   SpecDirs        the working directories of concurrent attempts        *)
(* In Spec every attempt has a working directory of its own (work_dir);    *)
(* SpecDirs names the directories as tasks.py:118 does.                    *)
(***************************************************************************)
EXTENDS Integers, Sequences, FiniteSets, TLC

\* ---- bounds of the model ------------------------------------------------
NJobs == 2           \* jobs submitted by a producer that calls enqueue_job
NVideos == 1         \* video messages received by the gateway (bot.py)
NChats == 1          \* distinct Telegram chats that send those videos
MaxErrors == 3       \* stage errors raised in one run of the system
NIds == 2            \* ids used by the sequential queue-manager client
MaxQueue == 3        \* list length up to which that client enqueues

\* ---- program constants --------------------------------------------------
MaxRetries == 2      \* tasks.py:219 / :222  retries >= 2, max_retries=2

\* Celery task instances: one per job of a producer, one per gateway video.
JobTasks == 1..NJobs
VideoTasks == (NJobs + 1)..(NJobs + NVideos)
Tasks == JobTasks \cup VideoTasks
Chats == 1..NChats

\* ---- Python values and their Redis encoding ------------------------------
\* A str job id "t" given by a producer that follows the signature job_id: str.
StrVal(t) == [kind |-> "str", val |-> t]
\* message.chat_id of chat c: an int; its decimal text is distinct from the
\* str job ids of the model.
IntVal(c) == [kind |-> "int", val |-> NJobs + NVideos + c]
NoVal == [kind |-> "none", val |-> 0]

\* redis-py encodes a str as itself and an int as its decimal text.
Encode(v) == v.val

\* `head == job_id` (tasks.py:77): head is a str decoded from Redis
\* (decode_responses=True, tasks.py:37) or None; Python's == between a str
\* and an int is False.
PyEq(head, v) == v.kind = "str" /\ head = v.val

\* ---- Redis list and hash commands ----------------------------------------
\* Python None / a nil reply; every index and id of the model is >= 0.
None == 0 - 1

\* RPUSH key value: the list after the command (value appended at the tail).
\* RPushMut is LPUSH.
RPushMut(list, s) == <<s>> \o list
RPush(list, s) == Append(list, s)

\* The integer reply of RPUSH: the length of the list after the push.
\* RPushReplyMut is the length before it.
RPushReplyMut(list, s) == Len(list)
RPushReply(list, s) == Len(list) + 1

\* LINDEX key 0: the first element, or None for an empty list.
\* LIndex0Mut is LINDEX key -1 (the last element).
LIndex0Mut(list) == IF Len(list) = 0 THEN None ELSE list[Len(list)]
LIndex0(list) == IF Len(list) = 0 THEN None ELSE list[1]

\* LPOS key value: 0-based index of the first occurrence, or None
LPos(list, s) ==
    IF \E i \in 1..Len(list) : list[i] = s
    THEN (CHOOSE i \in 1..Len(list) :
              list[i] = s /\ \A k \in 1..(i - 1) : list[k] # s) - 1
    ELSE None

\* LREM key 0 value: count 0 removes every occurrence of value.
\* LRemMut is LREM key 1 value, which removes the first occurrence only.
LRemMut(list, s) ==
    IF LPos(list, s) = None THEN list
    ELSE SubSeq(list, 1, LPos(list, s)) \o SubSeq(list, LPos(list, s) + 2, Len(list))
LRem(list, s) == SelectSeq(list, LAMBDA x : x # s)

\* tasks.py:76-77: the test that lets a worker leave _wait_for_turn.
\* AtHeadMut lets it leave as soon as its id is anywhere in the list.
AtHeadMut(list, v) == LPos(list, Encode(v)) # None
AtHead(list, v) == PyEq(LIndex0(list), v)

\* tasks.py:81-82: the lookup that decides a reinsertion.
Missing(list, s) == LPos(list, s) = None

VARIABLES
    queue,          \* Redis list recognbot:queue
    meta,           \* set of ids that have a recognbot:queue:meta:<id> hash
    token,          \* config.TELEGRAM_BOT_TOKEN is set
    enable_srt,     \* config.ENABLE_SRT
    pc,             \* per task: where its producer / worker stands
    job_id,         \* per task: the job_id argument of process_video
    retries,        \* per task: self.request.retries
    exit,           \* per task: how the try block of the attempt ended
    work_dir,       \* per task: its working directory exists on disk
    position,       \* per task: value returned to it by enqueue_job
    gate_passes,    \* per task: times _wait_for_turn returned
    failure_msgs,   \* per task: calls of _send_failure
    txt_docs,       \* per task: transcript attachments sent
    srt_docs,       \* per task: subtitle attachments sent
    errors,         \* stage errors raised so far (bounded by MaxErrors)
    api,            \* last call made by the sequential queue-manager client
    tc,             \* one call of processing.transcribe_chunks
    cd,             \* one evaluation of config.CHUNK_DURATION_SECONDS
    wt,             \* one call of _wait_for_turn with its clock
    att,            \* one attempt of process_video with its status messages
    wd              \* the working directories of the attempts of a few jobs

vars == <<queue, meta, token, enable_srt, pc, job_id, retries, exit, work_dir,
          position, gate_passes, failure_msgs, txt_docs, srt_docs, errors, api,
          tc, cd, wt, att, wd>>

cfgVars == <<token, enable_srt>>
storeVars == <<queue, meta>>
countVars == <<gate_passes, failure_msgs, txt_docs, srt_docs>>

\* The variables of the single-function specifications further down.
fnVars == <<tc, cd, wt, att, wd>>

Key(t) == Encode(job_id[t])

NoCall == [op |-> "none", id |-> 0, queue |-> <<>>, meta |-> {}, ret |-> None]

\* A function of the single-function specifications that is not being called.
NotCalled == [at |-> "none"]

\* No worker dispatched, no call made.
NoTask ==
    /\ pc = [t \in Tasks |-> "idle"]
    /\ job_id = [t \in Tasks |-> NoVal]
    /\ retries = [t \in Tasks |-> 0]
    /\ exit = [t \in Tasks |-> "none"]
    /\ work_dir = [t \in Tasks |-> FALSE]
    /\ position = [t \in Tasks |-> None]
    /\ gate_passes = [t \in Tasks |-> 0]
    /\ failure_msgs = [t \in Tasks |-> 0]
    /\ txt_docs = [t \in Tasks |-> 0]
    /\ srt_docs = [t \in Tasks |-> 0]
    /\ errors = 0
    /\ api = NoCall

\* No job submitted: Redis is empty.
Idle ==
    /\ queue = <<>>
    /\ meta = {}
    /\ NoTask

Init ==
    /\ Idle
    /\ token \in BOOLEAN
    /\ enable_srt \in BOOLEAN
    /\ tc = NotCalled
    /\ cd = NotCalled
    /\ wt = NotCalled
    /\ att = NotCalled
    /\ wd = NotCalled

\* ---- a producer that follows the signatures ------------------------------
\* enqueue_job(job_id: str, ...) and then process_video.delay(job_id, ...)
\* with the same str id; every such job has an id of its own.
\* enqueue_job, first command: position = client.rpush(QUEUE_KEY, job_id)
enqueue_job_rpush(t) ==
    /\ t \in JobTasks
    /\ pc[t] = "idle"
    /\ job_id' = [job_id EXCEPT ![t] = StrVal(t)]
    /\ queue' = RPush(queue, Encode(StrVal(t)))
    /\ position' = [position EXCEPT ![t] = RPushReply(queue, Encode(StrVal(t)))]
    /\ pc' = [pc EXCEPT ![t] = "enq_hset"]
    /\ UNCHANGED <<meta, cfgVars, retries, exit, work_dir, countVars, errors, api, fnVars>>

\* enqueue_job, second command: client.hset(meta key, mapping); the call
\* returns position to the producer, which then dispatches the worker with
\* process_video.delay(job_id, ...).
enqueue_job_hset(t) ==
    /\ pc[t] = "enq_hset"
    /\ meta' = meta \cup {Key(t)}
    /\ position' = [position EXCEPT ![t] = None]
    /\ pc' = [pc EXCEPT ![t] = "pending"]
    /\ UNCHANGED <<queue, cfgVars, job_id, retries, exit, work_dir, countVars,
                   errors, api, fnVars>>

\* ---- the gateway as written: bot.py handle_video -------------------------
\* process_video.delay(message.chat_id, file_id, file_name): no enqueue_job
\* call, and the first positional argument (job_id) is the int chat id.
handle_video(t, c) ==
    /\ pc[t] = "idle"
    /\ job_id' = [job_id EXCEPT ![t] = IntVal(c)]
    /\ pc' = [pc EXCEPT ![t] = "pending"]
    /\ UNCHANGED <<storeVars, cfgVars, retries, exit, work_dir, position,
                   countVars, errors, api, fnVars>>

\* ---- process_video (tasks.py:109-225) ------------------------------------
\* Lines 113-119: the token check returns before the try block is entered;
\* otherwise the attempt goes on to _wait_for_turn.
process_video_start(t) ==
    /\ pc[t] = "pending"
    /\ pc' = [pc EXCEPT ![t] = IF token THEN "wait_lindex" ELSE "returned"]
    /\ UNCHANGED <<storeVars, cfgVars, job_id, retries, exit, work_dir, position,
                   countVars, errors, api, fnVars>>

\* _wait_for_turn, lines 76-79: head = client.lindex(QUEUE_KEY, 0); return
\* when head == job_id.
wait_for_turn_lindex(t) ==
    /\ pc[t] = "wait_lindex"
    /\ IF AtHead(queue, job_id[t])
       THEN /\ pc' = [pc EXCEPT ![t] = "download"]
            /\ gate_passes' = [gate_passes EXCEPT ![t] = @ + 1]
       ELSE /\ pc' = [pc EXCEPT ![t] = "wait_lpos"]
            /\ UNCHANGED gate_passes
    /\ UNCHANGED <<storeVars, cfgVars, job_id, retries, exit, work_dir, position,
                   failure_msgs, txt_docs, srt_docs, errors, api, fnVars>>

\* Lines 81-82 and 88-99: position = client.lpos(QUEUE_KEY, job_id); a found
\* position is reported to the chat and the worker sleeps until the next poll.
wait_for_turn_lpos(t) ==
    /\ pc[t] = "wait_lpos"
    /\ pc' = [pc EXCEPT ![t] = IF Missing(queue, Key(t))
                               THEN "wait_rpush" ELSE "wait_lindex"]
    /\ UNCHANGED <<storeVars, cfgVars, job_id, retries, exit, work_dir, position,
                   countVars, errors, api, fnVars>>

\* Lines 83-85: the id was not in the list; client.rpush(QUEUE_KEY, job_id).
wait_for_turn_rpush(t) ==
    /\ pc[t] = "wait_rpush"
    /\ queue' = RPush(queue, Key(t))
    /\ pc' = [pc EXCEPT ![t] = "wait_lpos2"]
    /\ UNCHANGED <<meta, cfgVars, job_id, retries, exit, work_dir, position,
                   countVars, errors, api, fnVars>>

\* Lines 86-99: position = client.lpos(QUEUE_KEY, job_id) again, then the
\* notification and the sleep.
wait_for_turn_lpos2(t) ==
    /\ pc[t] = "wait_lpos2"
    /\ pc' = [pc EXCEPT ![t] = "wait_lindex"]
    /\ UNCHANGED <<storeVars, cfgVars, job_id, retries, exit, work_dir, position,
                   countVars, errors, api, fnVars>>

\* ---- the pipeline stages of one attempt (tasks.py:127-215) ---------------
\* Stages in program order; "send_srt" runs only when config.ENABLE_SRT.
\* StageAfterMut goes from the download straight to the split.
StageAfterMut(stage, srt) ==
    CASE stage = "download"   -> "split"
      [] stage = "extract"    -> "split"
      [] stage = "split"      -> "transcribe"
      [] stage = "transcribe" -> "finalize"
      [] stage = "finalize"   -> "send_txt"
      [] stage = "send_txt"   -> IF srt THEN "send_srt" ELSE "status100"
      [] stage = "send_srt"   -> "status100"
      [] stage = "status100"  -> "finally_lrem"
StageAfter(stage, srt) ==
    CASE stage = "download"   -> "extract"
      [] stage = "extract"    -> "split"
      [] stage = "split"      -> "transcribe"
      [] stage = "transcribe" -> "finalize"
      [] stage = "finalize"   -> "send_txt"
      [] stage = "send_txt"   -> IF srt THEN "send_srt" ELSE "status100"
      [] stage = "send_srt"   -> "status100"
      [] stage = "status100"  -> "finally_lrem"

\* Calls that can raise into the except clause. The last status message goes
\* through _send_status, which swallows every exception.
RaisingStages == {"download", "extract", "split", "transcribe", "finalize",
                  "send_txt", "send_srt"}
PipelineStages == RaisingStages \cup {"status100"}

\* The stage at pc[t] completes.
stage_done(t) ==
    /\ pc[t] \in PipelineStages
    /\ pc' = [pc EXCEPT ![t] = StageAfter(pc[t], enable_srt)]
    /\ work_dir' = [work_dir EXCEPT ![t] = @ \/ pc[t] = "download"]
    /\ txt_docs' = [txt_docs EXCEPT ![t] = IF pc[t] = "send_txt" THEN @ + 1 ELSE @]
    /\ srt_docs' = [srt_docs EXCEPT ![t] = IF pc[t] = "send_srt" THEN @ + 1 ELSE @]
    /\ exit' = [exit EXCEPT ![t] = IF pc[t] = "status100" THEN "ok" ELSE @]
    /\ UNCHANGED <<storeVars, cfgVars, job_id, retries, position, gate_passes,
                   failure_msgs, errors, api, fnVars>>

\* Lines 216-222: on the third failure (retries >= 2) the except clause sends
\* the failure message and re-raises; on an earlier one it asks Celery for a
\* retry (self.retry raises Retry).
\* LastAttemptMut gives up one failure late, LastAttemptEarly one failure early.
LastAttemptMut(r) == r >= MaxRetries + 1
LastAttemptEarly(r) == r >= MaxRetries - 1
LastAttempt(r) == r >= MaxRetries

\* The stage at pc[t] raises (a stage error) and the except clause runs.
\* download_video has created the working directory (processing.py:26)
\* before anything in it can fail.
stage_error(t) ==
    /\ pc[t] \in RaisingStages
    /\ errors < MaxErrors
    /\ errors' = errors + 1
    /\ work_dir' = [work_dir EXCEPT ![t] = @ \/ pc[t] = "download"]
    /\ IF LastAttempt(retries[t])
       THEN /\ failure_msgs' = [failure_msgs EXCEPT ![t] = @ + 1]
            /\ exit' = [exit EXCEPT ![t] = "raise"]
       ELSE /\ exit' = [exit EXCEPT ![t] = "retry"]
            /\ UNCHANGED failure_msgs
    /\ pc' = [pc EXCEPT ![t] = "finally_lrem"]
    /\ UNCHANGED <<storeVars, cfgVars, job_id, retries, position, gate_passes,
                   txt_docs, srt_docs, api, fnVars>>

\* ---- the finally clause: _remove_job then clean_workdir ------------------
\* _remove_job, line 57: client.lrem(QUEUE_KEY, 0, job_id)
remove_job_lrem(t) ==
    /\ pc[t] = "finally_lrem"
    /\ queue' = LRem(queue, Key(t))
    /\ pc' = [pc EXCEPT ![t] = "finally_delete"]
    /\ UNCHANGED <<meta, cfgVars, job_id, retries, exit, work_dir, position,
                   countVars, errors, api, fnVars>>

\* _remove_job, line 58: client.delete(meta key)
remove_job_delete(t) ==
    /\ pc[t] = "finally_delete"
    /\ meta' = meta \ {Key(t)}
    /\ pc' = [pc EXCEPT ![t] = "finally_clean"]
    /\ UNCHANGED <<queue, cfgVars, job_id, retries, exit, work_dir, position,
                   countVars, errors, api, fnVars>>

\* What Celery does with the attempt once the finally clause has run: a
\* normal return is a success, a re-raised error a failed run, and a Retry
\* redelivers the task with retries + 1. The redelivery waits for the
\* countdown of 30 seconds, so it starts after the finally clause of the
\* failed attempt (two Redis commands and an rmtree) is through.
AfterAttempt(how) ==
    CASE how = "ok"    -> "succeeded"
      [] how = "raise" -> "failed"
      [] how = "retry" -> "pending"

\* processing.clean_workdir(work_dir), then the task function is left.
clean_workdir(t) ==
    /\ pc[t] = "finally_clean"
    /\ work_dir' = [work_dir EXCEPT ![t] = FALSE]
    /\ pc' = [pc EXCEPT ![t] = AfterAttempt(exit[t])]
    /\ retries' = [retries EXCEPT ![t] = IF exit[t] = "retry" THEN @ + 1 ELSE @]
    /\ exit' = [exit EXCEPT ![t] = "none"]
    /\ UNCHANGED <<storeVars, cfgVars, job_id, position, countVars, errors, api, fnVars>>

TaskStep(t) ==
    \/ process_video_start(t)
    \/ wait_for_turn_lindex(t)
    \/ wait_for_turn_lpos(t)
    \/ wait_for_turn_rpush(t)
    \/ wait_for_turn_lpos2(t)
    \/ stage_done(t)
    \/ stage_error(t)
    \/ remove_job_lrem(t)
    \/ remove_job_delete(t)
    \/ clean_workdir(t)

Next ==
    \/ \E t \in JobTasks : enqueue_job_rpush(t)
    \/ \E t \in Tasks : enqueue_job_hset(t)
    \/ \E t \in VideoTasks, c \in Chats : handle_video(t, c)
    \/ \E t \in Tasks : process_video_start(t)
    \/ \E t \in Tasks : wait_for_turn_lindex(t)
    \/ \E t \in Tasks : wait_for_turn_lpos(t)
    \/ \E t \in Tasks : wait_for_turn_rpush(t)
    \/ \E t \in Tasks : wait_for_turn_lpos2(t)
    \/ \E t \in Tasks : stage_done(t)
    \/ \E t \in Tasks : stage_error(t)
    \/ \E t \in Tasks : remove_job_lrem(t)
    \/ \E t \in Tasks : remove_job_delete(t)
    \/ \E t \in Tasks : clean_workdir(t)

Spec == Init /\ [][Next]_vars

\* Fair scheduling: Celery keeps running every dispatched task, and a
\* producer that has begun enqueue_job finishes the call.
FairSpec ==
    /\ Spec
    /\ \A t \in Tasks : WF_vars(TaskStep(t))
    /\ \A t \in Tasks : WF_vars(enqueue_job_hset(t))

\* ---- the queue manager called by one sequential client -------------------
\* Whole calls of enqueue_job, _remove_job and of the position lookup of
\* _wait_for_turn, one after the other, on ids that may repeat; api keeps the
\* last call with the list and the metadata it found.
ApiIds == 1..NIds

\* enqueue_job(id, ...), tasks.py:40-52
api_enqueue_job(id) ==
    /\ Len(queue) < MaxQueue
    /\ queue' = RPush(queue, id)
    /\ meta' = meta \cup {id}
    /\ api' = [op |-> "enqueue", id |-> id, queue |-> queue, meta |-> meta,
               ret |-> RPushReply(queue, id)]
    /\ UNCHANGED <<cfgVars, pc, job_id, retries, exit, work_dir, position,
                   countVars, errors, fnVars>>

\* _remove_job(id), tasks.py:55-60
api_remove_job(id) ==
    /\ queue' = LRem(queue, id)
    /\ meta' = meta \ {id}
    /\ api' = [op |-> "remove", id |-> id, queue |-> queue, meta |-> meta,
               ret |-> None]
    /\ UNCHANGED <<cfgVars, pc, job_id, retries, exit, work_dir, position,
                   countVars, errors, fnVars>>

\* The position lookup of _wait_for_turn, tasks.py:81-86
api_position(id) ==
    /\ Len(queue) < MaxQueue
    /\ queue' = IF Missing(queue, id) THEN RPush(queue, id) ELSE queue
    /\ api' = [op |-> "position", id |-> id, queue |-> queue, meta |-> meta,
               ret |-> LPos(queue', id)]
    /\ UNCHANGED <<meta, cfgVars, pc, job_id, retries, exit, work_dir, position,
                   countVars, errors, fnVars>>

NextAPI ==
    \/ \E id \in ApiIds : api_enqueue_job(id)
    \/ \E id \in ApiIds : api_remove_job(id)
    \/ \E id \in ApiIds : api_position(id)

SpecAPI == Init /\ [][NextAPI]_vars

\* ---- the system as bot.py wires it ---------------------------------------
\* handle_video is the only dispatcher of process_video in the repository:
\* here every task instance is a video received by the gateway. No such
\* worker ever sees its int id at the head, so the stages are never entered.
NextGateway ==
    \/ \E t \in Tasks, c \in Chats : handle_video(t, c)
    \/ \E t \in Tasks : process_video_start(t)
    \/ \E t \in Tasks : wait_for_turn_lindex(t)
    \/ \E t \in Tasks : wait_for_turn_lpos(t)
    \/ \E t \in Tasks : wait_for_turn_rpush(t)
    \/ \E t \in Tasks : wait_for_turn_lpos2(t)

SpecGateway == Init /\ [][NextGateway]_vars

\* ==== properties ==========================================================

\* A worker is in the pipeline from the return of _wait_for_turn until the
\* finally clause begins.
InPipeline(t) == pc[t] \in PipelineStages

Waiting(t) == pc[t] \in {"wait_lindex", "wait_lpos", "wait_rpush", "wait_lpos2"}

InList(s) == \E i \in 1..Len(queue) : queue[i] = s

\* C1: mutual exclusion. In every reachable state at most one worker is
\* between the return of _wait_for_turn and its cleanup, whatever the
\* interleaving of the dispatched process_video workers.
C1_MutualExclusion ==
    \A t, u \in Tasks : InPipeline(t) /\ InPipeline(u) => t = u

\* C1 witness: one worker is in the pipeline while another one, whose id is in
\* the list behind it, is polling in _wait_for_turn.
C1_Witness ==
    \E t, u \in Tasks :
        /\ InPipeline(t)
        /\ Waiting(u)
        /\ LPos(queue, Key(u)) > 0

\* C2: FIFO gate. A worker that has left _wait_for_turn has no id before its
\* own in the list: while any id precedes it, the wait does not return.
C2_FifoGate ==
    \A t \in Tasks :
        InPipeline(t) =>
            /\ InList(Key(t))
            /\ \A i \in 1..Len(queue), k \in 1..Len(queue) :
                   k < i /\ queue[i] = Key(t) => queue[k] = Key(t)

\* C2 witness: a worker has passed the gate after the job before it has been
\* finished and removed, while a third id waits behind it.
C2_Witness ==
    \E t, u, w \in Tasks :
        /\ pc[t] = "download"
        /\ pc[u] \in {"succeeded", "failed"}
        /\ Waiting(w)
        /\ LPos(queue, Key(w)) > 0

\* The attempt of t is over: the task function has been left.
Left(t) ==
    \/ pc[t] \in {"succeeded", "failed", "returned"}
    \/ pc[t] = "pending" /\ retries[t] > 0

\* C3: submission-ordered processing. Every job is in the list (enqueued by
\* the gateway) from its dispatch until its worker first calls
\* _wait_for_turn, so that the list order is the submission order.
C3_EnqueuedBeforeWait ==
    \A t \in Tasks :
        pc[t] \in {"pending", "wait_lindex"} /\ retries[t] = 0 => InList(Key(t))

\* C4: retry then success. No failure message is sent before the retries are
\* used up; every attempt of a job, the retried ones included, goes through
\* _wait_for_turn again; a job that succeeds has sent no failure message and
\* has delivered the transcript (and the subtitles when they are enabled).
C4_RetryThenSuccess ==
    \A t \in Tasks :
        /\ failure_msgs[t] > 0 => retries[t] = MaxRetries /\ pc[t] # "succeeded"
        /\ InPipeline(t) \/ pc[t] = "succeeded" => gate_passes[t] = retries[t] + 1
        /\ pc[t] = "succeeded" =>
              /\ failure_msgs[t] = 0
              /\ txt_docs[t] >= 1
              /\ enable_srt => srt_docs[t] >= 1

\* C4 witness: a job has succeeded on its third attempt.
C4_Witness ==
    \E t \in Tasks : pc[t] = "succeeded" /\ retries[t] = MaxRetries

\* C5: retry exhaustion. A job that failed three times has sent exactly one
\* failure message, ended as a failed run, was attempted three times and no
\* more, and has left no working directory, list entry or metadata.
C5_RetryExhaustion ==
    \A t \in Tasks :
        /\ retries[t] <= MaxRetries
        /\ gate_passes[t] <= MaxRetries + 1
        /\ failure_msgs[t] <= 1
        /\ exit[t] = "raise" => failure_msgs[t] = 1
        /\ pc[t] = "failed" =>
              /\ failure_msgs[t] = 1
              /\ retries[t] = MaxRetries
              /\ gate_passes[t] = MaxRetries + 1
              /\ ~work_dir[t]
              /\ ~InList(Key(t))
              /\ Key(t) \notin meta

\* C5 witness: a job has ended as a failed run.
C5_Witness ==
    \E t \in Tasks : pc[t] = "failed"

\* C6: unconditional cleanup. Whenever the task function has been left, on
\* whatever path, the job id is out of the list, its metadata is deleted and
\* its working directory is gone.
C6_CleanupOnEveryExit ==
    \A t \in Tasks :
        Left(t) => ~InList(Key(t)) /\ Key(t) \notin meta /\ ~work_dir[t]

\* C7: liveness of _wait_for_turn. Under fair scheduling, every worker that
\* has called _wait_for_turn eventually returns from it.
C7_WaitReturns ==
    \A t \in Tasks : Waiting(t) ~> InPipeline(t)

\* The worker t executes the reinsertion of lines 83-85 in this step.
Reinserts(t) == pc[t] = "wait_rpush" /\ pc'[t] = "wait_lpos2"

\* The worker t executes the lookup of lines 81-82 in this step.
LooksUp(t) == pc[t] = "wait_lpos" /\ pc'[t] # "wait_lpos"

C9_EnqueueOrdering ==
    [][\A t \in JobTasks :
          pc[t] = "idle" /\ pc'[t] = "enq_hset" =>
              /\ SubSeq(queue', 1, Len(queue)) = queue
              /\ Len(queue') = Len(queue) + 1
              /\ position'[t] = Len(queue')
              /\ queue'[position'[t]] = Encode(job_id'[t])]_vars

\* C9 witness: two enqueue_job calls are in flight at once and have been
\* given the ranks 1 and 2, in the order of their appends.
C9_Witness ==
    \E t, u \in JobTasks :
        /\ pc[t] = "enq_hset" /\ pc[u] = "enq_hset"
        /\ position[t] = 1 /\ position[u] = 2
        /\ queue = <<Key(t), Key(u)>>

C11_MetaIffInList ==
    \A t \in Tasks : job_id[t] # NoVal => (Key(t) \in meta <=> InList(Key(t)))

\* C15: destruction only at a terminal state. The list entry of a job leaves
\* the list only when its pipeline has ended for good (delivered, or failed
\* with the retries used up), and until then no other unfinished job that was
\* behind it in the list gets in front of it.
C15_RemovedOnlyWhenTerminal ==
    [][\A t \in Tasks :
          /\ InList(Key(t)) /\ ~InList(Key(t))' => exit[t] \in {"ok", "raise"}
          /\ \A u \in Tasks :
                (/\ InList(Key(t)) /\ InList(Key(u))
                 /\ LPos(queue, Key(t)) < LPos(queue, Key(u))
                 /\ InList(Key(t))' /\ InList(Key(u))')
                => LPos(queue', Key(t)) < LPos(queue', Key(u))]_vars

\* C12: no duplicates. In every reachable state each job id is at most once
\* in the list.
C12_NoDuplicates ==
    \A i, k \in 1..Len(queue) : queue[i] = queue[k] => i = k

\* ==== processing.transcribe_chunks (processing.py:95-125) ==================
\* Times are in milliseconds: pydub's len(audio) is an int of milliseconds,
\* Whisper's start/end are seconds; the float sums of the code are taken as
\* exact. A text is a sequence of characters.
MaxChunkList == 3    \* chunks handed to one transcribe_chunks call

\* len(audio) of a chunk file: a full 300 s chunk or a short last one.
ChunkMillis == {300000, 1500}

\* What model.transcribe returns for a chunk: times relative to the chunk.
SegA == [start |-> 0, end |-> 2000, text |-> <<"a">>]
SegB == [start |-> 1000, end |-> 3000, text |-> <<" ", "b", " ">>]
ChunkResults == {<<>>, <<SegA>>, <<SegB>>, <<SegB, SegA>>}

ChunkFiles == [millis : ChunkMillis, segs : ChunkResults]
ChunkLists == UNION {[1..n -> ChunkFiles] : n \in 0..MaxChunkList}

\* str.strip(): leading and trailing blanks removed.
RECURSIVE LStrip(_)
LStrip(s) == IF s # <<>> /\ Head(s) = " " THEN LStrip(Tail(s)) ELSE s
RECURSIVE RStrip(_)
RStrip(s) ==
    IF s # <<>> /\ s[Len(s)] = " " THEN RStrip(SubSeq(s, 1, Len(s) - 1)) ELSE s
Strip(s) == RStrip(LStrip(s))

\* processing.py:114-120: Segment(seg.start + offset, seg.end + offset, text.strip())
Shifted(seg, offset) ==
    [start |-> seg.start + offset, end |-> seg.end + offset,
     text |-> Strip(seg.text)]

\* processing.py:121-122: offset += len(audio) / 1000.0
\* OffsetAfterMut forgets to advance the offset.
OffsetAfterMut(offset, millis) == offset
OffsetAfter(offset, millis) == offset + millis

\* A call with any list of chunks: segments = [], offset = 0.0
InitTranscribe ==
    /\ Idle
    /\ token = TRUE
    /\ enable_srt = TRUE
    /\ tc \in {[at |-> "loop", chunk_paths |-> c, index |-> 0, offset |-> 0,
                segments |-> <<>>] : c \in ChunkLists}
    /\ cd = NotCalled
    /\ wt = NotCalled
    /\ att = NotCalled
    /\ wd = NotCalled

\* processing.py:101-102: if not chunk_paths: return []
transcribe_chunks_empty ==
    /\ tc.at = "loop"
    /\ tc.chunk_paths = <<>>
    /\ tc' = [tc EXCEPT !.at = "returned"]
    /\ UNCHANGED <<queue, meta, cfgVars, pc, job_id, retries, exit, work_dir,
                   position, countVars, errors, api, cd, wt, att, wd>>

\* processing.py:110-124: one iteration of the loop over the chunks.
transcribe_chunks_iteration ==
    /\ tc.at = "loop"
    /\ tc.index < Len(tc.chunk_paths)
    /\ LET chunk == tc.chunk_paths[tc.index + 1] IN
           tc' = [tc EXCEPT
                    !.index = @ + 1,
                    !.segments = @ \o [j \in 1..Len(chunk.segs) |->
                                          Shifted(chunk.segs[j], tc.offset)],
                    !.offset = OffsetAfter(@, chunk.millis)]
    /\ UNCHANGED <<queue, meta, cfgVars, pc, job_id, retries, exit, work_dir,
                   position, countVars, errors, api, cd, wt, att, wd>>

\* processing.py:125: return segments
transcribe_chunks_return ==
    /\ tc.at = "loop"
    /\ tc.chunk_paths # <<>>
    /\ tc.index = Len(tc.chunk_paths)
    /\ tc' = [tc EXCEPT !.at = "returned"]
    /\ UNCHANGED <<queue, meta, cfgVars, pc, job_id, retries, exit, work_dir,
                   position, countVars, errors, api, cd, wt, att, wd>>

NextTranscribe ==
    \/ transcribe_chunks_empty
    \/ transcribe_chunks_iteration
    \/ transcribe_chunks_return

SpecTranscribe == InitTranscribe /\ [][NextTranscribe]_vars

\* Total length in milliseconds of the first n chunks of the list c.
RECURSIVE MillisBefore(_, _)
MillisBefore(c, n) == IF n = 0 THEN 0 ELSE MillisBefore(c, n - 1) + c[n].millis

\* Number of segments Whisper returned for the first n chunks of the list c.
RECURSIVE SegmentsBefore(_, _)
SegmentsBefore(c, n) ==
    IF n = 0 THEN 0 ELSE SegmentsBefore(c, n - 1) + Len(c[n].segs)

\* C13: offset aggregation. The list transcribe_chunks returns holds the
\* segments of all chunks in chunk order, and the start and the end of every
\* segment of chunk k are moved by exactly the total length of chunks 1..k-1.
C13_OffsetAggregation ==
    tc.at = "returned" =>
        LET c == tc.chunk_paths IN
            /\ Len(tc.segments) = SegmentsBefore(c, Len(c))
            /\ \A k \in 1..Len(c) : \A j \in 1..Len(c[k].segs) :
                   LET out == tc.segments[SegmentsBefore(c, k - 1) + j] IN
                       /\ out.start = c[k].segs[j].start + MillisBefore(c, k - 1)
                       /\ out.end = c[k].segs[j].end + MillisBefore(c, k - 1)
                       /\ out.text = Strip(c[k].segs[j].text)

\* C13 witness: chunk 1 (300 s) gave {0, 2, a}, chunk 2 gave {1, 3, b}, and
\* the call has returned [{0, 2, a}, {301, 303, b}].
C13_Witness ==
    /\ tc.at = "returned"
    /\ Len(tc.chunk_paths) = 2
    /\ tc.chunk_paths[1] = [millis |-> 300000, segs |-> <<SegA>>]
    /\ tc.chunk_paths[2].segs = <<SegB>>
    /\ tc.segments = <<[start |-> 0, end |-> 2000, text |-> <<"a">>],
                       [start |-> 301000, end |-> 303000, text |-> <<"b">>]>>

\* ==== config.CHUNK_DURATION_SECONDS (config.py:5-18) ======================
MaxDigits == 4       \* digits of the configured CHUNK_DURATION_SECONDS text

MinChunkSeconds == 300     \* config.py:7
MaxChunkSeconds == 600     \* config.py:7

\* The environment: CHUNK_DURATION_SECONDS unset, or the decimal text of an
\* integer, a sign and up to MaxDigits digits.
Unset == [sign |-> "unset", digits |-> <<>>]
EnvTexts ==
    {Unset} \cup
    [sign : {"", "+", "-"},
     digits : UNION {[1..n -> 0..9] : n \in 1..MaxDigits}]

\* os.getenv("CHUNK_DURATION_SECONDS", "600")
DefaultText == [sign |-> "", digits |-> <<6, 0, 0>>]
GetEnv(env) == IF env = Unset THEN DefaultText ELSE env

\* int(text) for a decimal text
RECURSIVE DigitsValue(_)
DigitsValue(d) ==
    IF d = <<>> THEN 0
    ELSE 10 * DigitsValue(SubSeq(d, 1, Len(d) - 1)) + d[Len(d)]
ParseInt(text) ==
    IF text.sign = "-" THEN 0 - DigitsValue(text.digits)
    ELSE DigitsValue(text.digits)

\* Python's built-in max and min of two ints
PyMax(a, b) == IF a >= b THEN a ELSE b
PyMin(a, b) == IF a <= b THEN a ELSE b

\* config.py:5-7. ClampMut has lost the lower limit.
ClampMut(value) == PyMin(MaxChunkSeconds, value)
_clamp_chunk_duration(value) ==
    PyMax(MinChunkSeconds, PyMin(MaxChunkSeconds, value))

InitConfig ==
    /\ Idle
    /\ token = TRUE
    /\ enable_srt = TRUE
    /\ tc = NotCalled
    /\ cd \in {[at |-> "import", env |-> e, value |-> None] : e \in EnvTexts}
    /\ wt = NotCalled
    /\ att = NotCalled
    /\ wd = NotCalled

\* config.py:16-18, executed when app.config is imported.
load_chunk_duration ==
    /\ cd.at = "import"
    /\ cd' = [cd EXCEPT !.at = "loaded",
                        !.value = _clamp_chunk_duration(ParseInt(GetEnv(cd.env)))]
    /\ UNCHANGED <<queue, meta, cfgVars, pc, job_id, retries, exit, work_dir,
                   position, countVars, errors, api, tc, wt, att, wd>>

NextConfig == load_chunk_duration

SpecConfig == InitConfig /\ [][NextConfig]_vars

\* The integer the configuration asks for (600 when nothing is configured).
Configured == ParseInt(GetEnv(cd.env))

\* C14: chunk-duration clamp. The effective chunk duration is the configured
\* integer when that lies in 300..600, 300 when it is smaller and 600 when it
\* is larger, so it is always in 300..600; 100 gives 300 and 1000 gives 600.
C14_ChunkDurationClamp ==
    cd.at = "loaded" =>
        /\ cd.value \in 300..600
        /\ Configured \in 300..600 => cd.value = Configured
        /\ Configured < 300 => cd.value = 300
        /\ Configured > 600 => cd.value = 600
        /\ Configured = 100 => cd.value = 300
        /\ Configured = 1000 => cd.value = 600

\* C14 witness: the texts "100" and "1000" are configured values of the
\* model, and "100" has been loaded as 300.
C14_Witness ==
    /\ cd.at = "loaded"
    /\ cd.env = [sign |-> "", digits |-> <<1, 0, 0>>]
    /\ cd.value = 300
    /\ [sign |-> "", digits |-> <<1, 0, 0, 0>>] \in EnvTexts

\* ==== one call of _wait_for_turn with its clock (tasks.py:70-99) ==========
\* Time is in whole seconds. The other workers appear as the environment:
\* the job at the head of the list finishes and is removed.
MaxElapsed == 45     \* seconds of waiting that are followed

QUEUE_NOTIFY_INTERVAL == 30    \* tasks.py:32

\* time.time() when _wait_for_turn is called.
StartTime == 100

\* Seconds from one poll to the next: time.sleep(5) and the Redis commands.
PollPeriods == {5, 8}

\* The job ids of the other jobs.
OtherIds == {Encode(StrVal(t)) : t \in Tasks \ {1}}

\* Lists without repetition over the ids s.
ListsOver(s) ==
    {l \in UNION {[1..n -> s] : n \in 0..Cardinality(s)} :
        \A i, k \in 1..Len(l) : l[i] = l[k] => i = k}

\* tasks.py:91. NotifyDueMut lets exactly 30 seconds pass without a message.
NotifyDueMut(position_display, last_position, now, last_notified) ==
    \/ position_display # last_position
    \/ now - last_notified > QUEUE_NOTIFY_INTERVAL
NotifyDue(position_display, last_position, now, last_notified) ==
    \/ position_display # last_position
    \/ now - last_notified >= QUEUE_NOTIFY_INTERVAL

\* Lines 71-73: last_notified = 0.0, last_position = None. The id is a str
\* of a producer or the int chat id of the gateway; it may be anywhere in
\* the list or not in it. prev_position and prev_notified keep the message
\* before the last one, sent counts the _send_status calls.
InitWait ==
    /\ NoTask
    /\ meta = {}
    /\ token = TRUE
    /\ enable_srt = TRUE
    /\ tc = NotCalled
    /\ cd = NotCalled
    /\ att = NotCalled
    /\ \E id \in {StrVal(1), IntVal(1)} :
           /\ wt = [at |-> "poll", job_id |-> id, now |-> StartTime,
                    last_notified |-> 0, last_position |-> None,
                    prev_notified |-> 0, prev_position |-> None, sent |-> 0]
    /\ queue \in ListsOver(OtherIds \cup {Encode(wt.job_id)})
    /\ wd = NotCalled

\* Lines 75-97: one iteration of the loop up to the sleep.
wait_for_turn_poll ==
    /\ wt.at = "poll"
    /\ IF AtHead(queue, wt.job_id)
       THEN /\ wt' = [wt EXCEPT !.at = "returned"]
            /\ UNCHANGED queue
       ELSE /\ queue' = IF Missing(queue, Encode(wt.job_id))
                        THEN RPush(queue, Encode(wt.job_id)) ELSE queue
            /\ LET lpos == LPos(queue', Encode(wt.job_id))
                   position_display == lpos + 1
               IN  IF lpos # None /\ NotifyDue(position_display,
                          wt.last_position, wt.now, wt.last_notified)
                   THEN wt' = [wt EXCEPT !.at = "sleep",
                                         !.sent = @ + 1,
                                         !.prev_position = wt.last_position,
                                         !.prev_notified = wt.last_notified,
                                         !.last_position = position_display,
                                         !.last_notified = wt.now]
                   ELSE wt' = [wt EXCEPT !.at = "sleep"]
    /\ UNCHANGED <<meta, cfgVars, pc, job_id, retries, exit, work_dir,
                   position, countVars, errors, api, tc, cd, att, wd>>

\* Line 98: time.sleep(5); the next iteration reads time.time() again.
wait_for_turn_sleep(d) ==
    /\ wt.at = "sleep"
    /\ wt.now + d <= StartTime + MaxElapsed
    /\ wt' = [wt EXCEPT !.at = "poll", !.now = @ + d]
    /\ UNCHANGED <<queue, meta, cfgVars, pc, job_id, retries, exit, work_dir,
                   position, countVars, errors, api, tc, cd, att, wd>>

\* The job at the head, another one, finishes: its worker's _remove_job.
head_job_removed ==
    /\ wt.at # "none"
    /\ queue # <<>>
    /\ Head(queue) # Encode(wt.job_id)
    /\ queue' = LRem(queue, Head(queue))
    /\ UNCHANGED <<meta, cfgVars, pc, job_id, retries, exit, work_dir,
                   position, countVars, errors, api, fnVars>>

NextWait ==
    \/ wait_for_turn_poll
    \/ \E d \in PollPeriods : wait_for_turn_sleep(d)
    \/ head_job_removed

SpecWait == InitWait /\ [][NextWait]_vars

\* This step is a poll that found the job not at the head.
PollsBehindHead == wt.at = "poll" /\ wt'.at = "sleep"

\* C16: wait notification throttling. A poll that finds the job not at the
\* head sends its 1-based position if and only if that position differs from
\* the last one sent or 30 seconds have passed since the last message; so
\* two messages in a row with the same position are at least 30 seconds
\* apart, and the first poll always sends one.
C16_NotifyThrottling ==
    [][PollsBehindHead =>
          LET pos == LPos(queue', Encode(wt.job_id)) + 1 IN
              /\ (wt'.sent = wt.sent + 1) <=>
                     (pos # wt.last_position \/ wt.now - wt.last_notified >= 30)
              /\ wt'.sent \in {wt.sent, wt.sent + 1}
              /\ wt'.sent = wt.sent + 1 =>
                     /\ wt'.last_position = pos
                     /\ wt'.last_notified = wt.now
              /\ wt'.sent >= 1
              /\ wt'.sent >= 2 /\ wt'.last_position = wt'.prev_position =>
                     wt'.last_notified - wt'.prev_notified >= 30]_vars

\* C16 witness: three messages have been sent, the last two with the same
\* position, and a later poll has sent nothing.
C16_Witness ==
    /\ wt.at = "sleep"
    /\ wt.sent = 3
    /\ wt.last_position = wt.prev_position
    /\ wt.now > wt.last_notified

\* ==== one attempt of process_video with its status messages ===============
\* tasks.py:127-215, from the return of _wait_for_turn to the end of the try
\* block: the stages of StageAfter, the percentage of every _send_status
\* call, and the progress callback of the transcription, chunk by chunk.
MaxChunks == 40      \* chunks split_audio can return in one attempt

\* Percentage of the status message sent once a stage is through
\* (tasks.py:138-142, 152-156, 188-192, 211-215).
StatusAfter(stage) ==
    CASE stage = "download"  -> <<25>>
      [] stage = "split"     -> <<40>>
      [] stage = "finalize"  -> <<85>>
      [] stage = "status100" -> <<100>>
      [] OTHER               -> <<>>

\* tasks.py:164-165: percent = min(45 + int(35 * done / total), 80)
Percent(done, total) == PyMin(45 + ((35 * done) \div total), 80)

\* tasks.py:166. ProgressDueMut reports every 5 points.
ProgressDueMut(percent, last_percent, done, total) ==
    percent - last_percent >= 5 \/ done = total
ProgressDue(percent, last_percent, done, total) ==
    percent - last_percent >= 10 \/ done = total

\* _wait_for_turn has returned. sent: percentages of the status messages,
\* progress: messages of the progress callback with the chunk they came
\* after, ran: stages entered, total: len(chunks), done: chunks transcribed.
InitAttempt ==
    /\ Idle
    /\ token = TRUE
    /\ enable_srt \in BOOLEAN
    /\ tc = NotCalled
    /\ cd = NotCalled
    /\ wt = NotCalled
    /\ att = [at |-> "begin", total |-> None, done |-> 0, last_percent |-> None,
              sent |-> <<>>, progress |-> <<>>, ran |-> <<>>, how |-> "none",
              failed_at |-> "none"]
    /\ wd = NotCalled

\* Lines 127-133: the 0% message, then download_video is called.
attempt_begin ==
    /\ att.at = "begin"
    /\ att' = [att EXCEPT !.at = "download", !.sent = <<0>>,
                          !.ran = <<"download">>]
    /\ UNCHANGED <<queue, meta, cfgVars, pc, job_id, retries, exit, work_dir,
                   position, countVars, errors, api, tc, cd, wt, wd>>

\* The stage at att.at returns; n is len(chunks) when the stage is the split
\* (line 159 then sets last_percent to 40). transcribe_chunks returns after
\* its last chunk (processing.py:125).
attempt_stage_done(n) ==
    /\ att.at \in PipelineStages
    /\ att.at = "split" \/ n = 0
    /\ att.at = "transcribe" => att.done = att.total
    /\ LET next == StageAfter(att.at, enable_srt) IN
           att' = [att EXCEPT
                     !.at = next,
                     !.ran = IF next \in PipelineStages THEN Append(@, next) ELSE @,
                     !.sent = @ \o StatusAfter(att.at),
                     !.total = IF att.at = "split" THEN n ELSE @,
                     !.last_percent = IF att.at = "split" THEN 40 ELSE @,
                     !.how = IF att.at = "status100" THEN "ok" ELSE @]
    /\ UNCHANGED <<queue, meta, cfgVars, pc, job_id, retries, exit, work_dir,
                   position, countVars, errors, api, tc, cd, wt, wd>>

\* One chunk is transcribed and progress_callback(index, total) is called
\* (processing.py:110-124, tasks.py:161-173).
attempt_transcribe_chunk ==
    /\ att.at = "transcribe"
    /\ att.done < att.total
    /\ LET done == att.done + 1
           percent == Percent(done, att.total)
       IN  IF ProgressDue(percent, att.last_percent, done, att.total)
           THEN att' = [att EXCEPT
                          !.done = done,
                          !.sent = Append(@, percent),
                          !.progress = Append(@, [percent |-> percent,
                                                  done |-> done]),
                          !.last_percent = percent]
           ELSE att' = [att EXCEPT !.done = done]
    /\ UNCHANGED <<queue, meta, cfgVars, pc, job_id, retries, exit, work_dir,
                   position, countVars, errors, api, tc, cd, wt, wd>>

\* The stage at att.at raises: the except clause and then the finally clause
\* run, nothing else of the try block does (tasks.py:216-225).
attempt_stage_error ==
    /\ att.at \in RaisingStages
    /\ att' = [att EXCEPT !.at = "finally_lrem", !.how = "error",
                          !.failed_at = att.at]
    /\ UNCHANGED <<queue, meta, cfgVars, pc, job_id, retries, exit, work_dir,
                   position, countVars, errors, api, tc, cd, wt, wd>>

NextAttempt ==
    \/ attempt_begin
    \/ \E n \in 0..MaxChunks : attempt_stage_done(n)
    \/ attempt_transcribe_chunk
    \/ attempt_stage_error

SpecAttempt == InitAttempt /\ [][NextAttempt]_vars

\* The pipeline state a stage of the model belongs to, numbered in the order
\* DOWNLOADING, EXTRACTING, SPLITTING, TRANSCRIBING, FINALIZING, DELIVERED.
StateOf(stage) ==
    CASE stage = "download"   -> 1
      [] stage = "extract"    -> 2
      [] stage = "split"      -> 3
      [] stage = "transcribe" -> 4
      [] stage = "finalize"   -> 5
      [] stage \in {"send_txt", "send_srt", "status100"} -> 6

\* C17: stage and checkpoint order. The stages of an attempt are entered in
\* the order DOWNLOADING .. DELIVERED, none skipped and none repeated; after
\* a stage error no further stage is entered; the percentages sent are
\* non-decreasing, and those of a successful attempt are 0, 25, 40, values
\* in 45..80, 85, 100.
C17_StageOrder ==
    /\ att.ran # <<>> => StateOf(att.ran[1]) = 1
    /\ \A i \in 1..(Len(att.ran) - 1) :
           StateOf(att.ran[i + 1]) - StateOf(att.ran[i]) \in {0, 1}
    /\ \A i, k \in 1..Len(att.ran) : att.ran[i] = att.ran[k] => i = k
    /\ att.how = "error" => /\ att.at = "finally_lrem"
                            /\ att.ran[Len(att.ran)] = att.failed_at
    /\ \A i \in 1..(Len(att.sent) - 1) : att.sent[i] <= att.sent[i + 1]
    /\ att.how = "ok" =>
           /\ StateOf(att.ran[Len(att.ran)]) = 6
           /\ Len(att.sent) >= 5
           /\ SubSeq(att.sent, 1, 3) = <<0, 25, 40>>
           /\ \A i \in 4..(Len(att.sent) - 2) : att.sent[i] \in 45..80
           /\ SubSeq(att.sent, Len(att.sent) - 1, Len(att.sent)) = <<85, 100>>

\* C17 witness: a successful attempt has sent 0, 25, 40, 56, 68, 80, 85, 100.
C17_Witness ==
    /\ att.how = "ok"
    /\ att.sent = <<0, 25, 40, 56, 68, 80, 85, 100>>

\* C18: transcription progress bound. With at least one chunk, the progress
\* callback sends at most 4 messages, with strictly increasing percentages;
\* once all chunks are done it has sent at least 1, and the last one came
\* with the final chunk and says 80.
C18_ProgressBound ==
    att.at # "none" /\ att.total # None /\ att.total >= 1 =>
        LET p == att.progress IN
            /\ Len(p) <= 4
            /\ \A i \in 1..(Len(p) - 1) : p[i].percent < p[i + 1].percent
            /\ \A i \in 1..Len(p) : p[i].percent \in 45..80
            /\ att.done = att.total =>
                   /\ Len(p) >= 1
                   /\ p[Len(p)] = [percent |-> 80, done |-> att.total]

\* C18 witness: the transcription of 12 chunks is through and has sent 4
\* messages.
C18_Witness ==
    /\ att.at = "finalize"
    /\ att.total = 12
    /\ Len(att.progress) = 4

\* C19: delivery at most once. Over all attempts of a job the transcript
\* attachment is sent to the submitter at most once, and a job that has been
\* told of a failure has been sent no attachment.
C19_DeliveredAtMostOnce ==
    \A t \in Tasks :
        /\ txt_docs[t] <= 1
        /\ failure_msgs[t] > 0 => txt_docs[t] = 0 /\ srt_docs[t] = 0

\* ==== the working directories of concurrent attempts ======================
\* process_video of the jobs of a producer, reduced to what touches the
\* working directory: its naming (tasks.py:118), the gate, download_video's
\* mkdir (processing.py:26), the stages that read and write in it, and the
\* finally clause. A clock tick is the start of a later second, however much
\* later; the countdown of a retry (30 s) spans at least one tick.
MaxTicks == 2        \* seconds that begin while the jobs run

NoDir == [chat |-> 0, sec |-> None]

\* tasks.py:118: config.TEMP_DIR / f"{chat_id}_{int(time.time())}"
WorkDir(chat_id, now) == [chat |-> chat_id, sec |-> now]

InitDirs ==
    /\ Idle
    /\ token = TRUE
    /\ enable_srt = TRUE
    /\ tc = NotCalled
    /\ cd = NotCalled
    /\ wt = NotCalled
    /\ att = NotCalled
    /\ wd = [at |-> "run", clock |-> 0, disk |-> {},
             job |-> [j \in JobTasks |->
                        [at |-> "idle", chat |-> 0, name |-> NoDir,
                         prev |-> NoDir, fresh |-> TRUE, retries |-> 0,
                         exit |-> "none"]]]

DirsUnchanged ==
    UNCHANGED <<meta, cfgVars, pc, job_id, retries, exit, work_dir, position,
                countVars, errors, api, tc, cd, wt, att>>

\* enqueue_job(j, c, ...) and process_video.delay(j, c, ...) by the producer
dirs_submit(j, c) ==
    /\ wd.at = "run"
    /\ wd.job[j].at = "idle"
    /\ queue' = RPush(queue, Encode(StrVal(j)))
    /\ wd' = [wd EXCEPT !.job[j].at = "pending", !.job[j].chat = c]
    /\ DirsUnchanged

\* tasks.py:117-123: an attempt starts and names its working directory. A
\* retried attempt starts after the countdown, in a later second than the
\* failed one. fresh records whether the path existed at that moment.
dirs_start(j) ==
    /\ wd.at = "run"
    /\ wd.job[j].at = "pending"
    /\ wd.job[j].retries > 0 => wd.clock > wd.job[j].prev.sec
    /\ LET name == WorkDir(wd.job[j].chat, wd.clock) IN
           wd' = [wd EXCEPT !.job[j].at = "wait",
                            !.job[j].name = name,
                            !.job[j].fresh = name \notin wd.disk]
    /\ UNCHANGED queue
    /\ DirsUnchanged

\* tasks.py:75-86: one poll of _wait_for_turn
dirs_wait(j) ==
    /\ wd.at = "run"
    /\ wd.job[j].at = "wait"
    /\ IF AtHead(queue, StrVal(j))
       THEN /\ wd' = [wd EXCEPT !.job[j].at = "download"]
            /\ UNCHANGED queue
       ELSE /\ queue' = IF Missing(queue, Encode(StrVal(j)))
                        THEN RPush(queue, Encode(StrVal(j))) ELSE queue
            /\ UNCHANGED wd
    /\ DirsUnchanged

\* tasks.py:134, processing.py:24-37: download_video creates the directory
\* (mkdir with exist_ok=True) and writes the video into it.
dirs_download(j) ==
    /\ wd.at = "run"
    /\ wd.job[j].at = "download"
    /\ wd' = [wd EXCEPT !.disk = @ \cup {wd.job[j].name},
                        !.job[j].at = "work"]
    /\ UNCHANGED queue
    /\ DirsUnchanged

\* tasks.py:143-215: the stages after the download read and write the files
\* of the directory; they get through only while it exists.
dirs_work_done(j) ==
    /\ wd.at = "run"
    /\ wd.job[j].at = "work"
    /\ wd.job[j].name \in wd.disk
    /\ wd' = [wd EXCEPT !.job[j].at = "finally_lrem", !.job[j].exit = "ok"]
    /\ UNCHANGED queue
    /\ DirsUnchanged

\* tasks.py:216-222: a stage raises; the download has made its mkdir by then.
dirs_work_error(j) ==
    /\ wd.at = "run"
    /\ wd.job[j].at \in {"download", "work"}
    /\ wd' = [wd EXCEPT
                !.disk = IF wd.job[j].at = "download"
                         THEN @ \cup {wd.job[j].name} ELSE @,
                !.job[j].at = "finally_lrem",
                !.job[j].exit = IF LastAttempt(wd.job[j].retries)
                                THEN "raise" ELSE "retry"]
    /\ UNCHANGED queue
    /\ DirsUnchanged

\* tasks.py:224: _remove_job(job_id)
dirs_remove_job(j) ==
    /\ wd.at = "run"
    /\ wd.job[j].at = "finally_lrem"
    /\ queue' = LRem(queue, Encode(StrVal(j)))
    /\ wd' = [wd EXCEPT !.job[j].at = "finally_clean"]
    /\ DirsUnchanged

\* tasks.py:225, processing.py:146-148: shutil.rmtree(work_dir)
dirs_clean_workdir(j) ==
    /\ wd.at = "run"
    /\ wd.job[j].at = "finally_clean"
    /\ wd' = [wd EXCEPT
                !.disk = @ \ {wd.job[j].name},
                !.job[j].at = AfterAttempt(wd.job[j].exit),
                !.job[j].retries = IF wd.job[j].exit = "retry" THEN @ + 1 ELSE @,
                !.job[j].prev = wd.job[j].name,
                !.job[j].exit = "none"]
    /\ UNCHANGED queue
    /\ DirsUnchanged

\* A later second begins.
dirs_tick ==
    /\ wd.at = "run"
    /\ wd.clock < MaxTicks
    /\ wd' = [wd EXCEPT !.clock = @ + 1]
    /\ UNCHANGED queue
    /\ DirsUnchanged

NextDirs ==
    \/ \E j \in JobTasks, c \in Chats : dirs_submit(j, c)
    \/ \E j \in JobTasks : dirs_start(j)
    \/ \E j \in JobTasks : dirs_wait(j)
    \/ \E j \in JobTasks : dirs_download(j)
    \/ \E j \in JobTasks : dirs_work_done(j)
    \/ \E j \in JobTasks : dirs_work_error(j)
    \/ \E j \in JobTasks : dirs_remove_job(j)
    \/ \E j \in JobTasks : dirs_clean_workdir(j)
    \/ dirs_tick

SpecDirs == InitDirs /\ [][NextDirs]_vars

\* The attempt of j is alive: started and not yet through its cleanup.
Alive(j) ==
    wd.job[j].at \in {"wait", "download", "work", "finally_lrem", "finally_clean"}

\* C20: working-directory isolation. Two attempts of different jobs that are
\* alive at the same time never have the same working directory, so the
\* directory of an attempt at work is never deleted under it; and a retried
\* attempt has a directory name other than that of the failed attempt, one
\* that did not exist when the attempt started.
C20_WorkdirIsolation ==
    wd.at = "run" =>
        /\ \A j, k \in JobTasks :
               j # k /\ Alive(j) /\ Alive(k) => wd.job[j].name # wd.job[k].name
        /\ \A j \in JobTasks :
               wd.job[j].at = "work" => wd.job[j].name \in wd.disk
        /\ \A j \in JobTasks :
               Alive(j) /\ wd.job[j].retries > 0 =>
                   wd.job[j].name # wd.job[j].prev /\ wd.job[j].fresh

====
